---- MODULE Spec2Model ----
(***************************************************************************)
(* Learning-rate range test of torch_lr_finder/lr_finder.py:               *)
(* Step.step, LRFinder.range_test and the LinearLR / ExponentialLR         *)
(* schedules, as a state machine over the optimizer's parameter groups,    *)
(* the history and the position of the sweep loop.                         *)
(*                                                                         *)
(* Python floats are modelled as exact rationals <<n, d>> (d > 0, lowest   *)
(* terms); None is the empty tuple.                                        *)
(***************************************************************************)
EXTENDS Integers, Sequences, FiniteSets, TLC

(* ------------------------------ bounds -------------------------------- *)

\* largest num_iter a call is given
MaxIter == 3
\* number of range_test calls made on one LRFinder
MaxRuns == 2
\* number of parameter groups of the optimizer
NumGroups == 2

(* --------------------------- exact rationals --------------------------- *)

None == <<>>

Abs(n) == IF n < 0 THEN -n ELSE n

RECURSIVE Gcd(_, _)
Gcd(a, b) == IF b = 0 THEN a ELSE Gcd(b, a % b)

\* the rational n/d in lowest terms with a positive denominator
Q(n, d) ==
    LET g == Gcd(Abs(n), Abs(d))
        s == IF d < 0 THEN -1 ELSE 1
    IN  <<(s * n) \div g, (s * d) \div g>>

QInt(n) == <<n, 1>>
QAdd(a, b) == Q(a[1] * b[2] + b[1] * a[2], a[2] * b[2])
QSub(a, b) == Q(a[1] * b[2] - b[1] * a[2], a[2] * b[2])
QMul(a, b) == Q(a[1] * b[1], a[2] * b[2])
QDiv(a, b) == Q(a[1] * b[2], a[2] * b[1])
QLt(a, b) == a[1] * b[2] < b[1] * a[2]
QLe(a, b) == a[1] * b[2] <= b[1] * a[2]
QZero == QInt(0)
QOne == QInt(1)

RECURSIVE IPow(_, _)
IPow(b, e) == IF e = 0 THEN 1 ELSE b * IPow(b, e - 1)

\* the exact q-th root of the natural n (the inputs keep it exact)
IRoot(n, q) == CHOOSE k \in 0..n : IPow(k, q) = n

\* the value a float operation yields when it leaves the reals: Python's
\* negative ** fractional is a complex number
Complex == <<0, 0>>

\* x ** r for a rational exponent r >= 0, as Python's float power
QPow(x, r) ==
    IF r[1] = 0 THEN QOne
    ELSE IF x[1] < 0 /\ r[2] # 1 THEN Complex
    ELSE IF x[1] < 0 THEN Q(IPow(x[1], r[1]), IPow(x[2], r[1]))
    ELSE Q(IPow(IRoot(x[1], r[2]), r[1]), IPow(IRoot(x[2], r[2]), r[1]))

RECURSIVE SeqMin(_)
SeqMin(s) ==
    IF Len(s) = 1 THEN s[1]
    ELSE LET m == SeqMin(Tail(s))
         IN  IF QLt(s[1], m) THEN s[1] ELSE m

(* ------------------------------ inputs -------------------------------- *)

\* an argument that is None, a scalar or a list: val holds no, one or
\* several values
NoneArg == [kind |-> "none", val |-> <<>>]
Scalar(q) == [kind |-> "scalar", val |-> <<q>>]
List(s) == [kind |-> "list", val |-> s]

\* learning rates are powers of 64, so that every root the exponential
\* schedule takes for num_iter <= MaxIter + 1 is exact
LowLr == QInt(1)
HighLr == QInt(64)

\* a per-group list of n rates
LrList(n) == [i \in 1..n |-> IF i = 1 THEN HighLr ELSE LowLr]

StartLrs ==
    { NoneArg, Scalar(QZero), Scalar(HighLr), List(LrList(NumGroups)),
      List(LrList(NumGroups - 1)) }
EndLrs == { Scalar(HighLr) }
NumIters == 1..MaxIter
StepModes == { "exp", "Linear", "cosine" }
SmoothFs == { Q(-1, 10), QZero, Q(1, 4), QOne }
Outcomes == { "ok", "StopIteration", "error" }

\* every shape of argument a call can be given, valid or not
Args ==
    [ start_lr : StartLrs, end_lr : EndLrs, num_iter : NumIters,
      step_mode : StepModes, smooth_f : SmoothFs, diverge_th : { QInt(2) } ]
\* the losses the executors return under Spec
CallLosses == { QInt(1), QInt(6) }

\* the arguments of the sweeps of SweepSpec: calls that reach the loop
SweepArgs ==
    [ start_lr : { NoneArg, Scalar(HighLr) }, end_lr : { Scalar(HighLr) },
      num_iter : 2..MaxIter, step_mode : { "exp", "Linear" },
      smooth_f : { QZero, Q(1, 4) },
      diverge_th : { QInt(1), QInt(2), QInt(5) } ]
\* the losses the executors return under SweepSpec
Losses == { QInt(-1), QInt(1), QInt(6) }

NoArgs ==
    [ start_lr |-> NoneArg, end_lr |-> NoneArg, num_iter |-> 0,
      step_mode |-> "", smooth_f |-> QZero, diverge_th |-> QZero ]

(* ------------------------------- state -------------------------------- *)

VARIABLES
    param_groups,   \* optimizer.param_groups: records with lr and, once a
                    \* scheduler was attached, initial_lr
    history,        \* self.history: [lr, loss], two lists
    best_loss,      \* self.best_loss
    has_val,        \* self.val_step is not None
    state,          \* Idle, Running, Completed, Diverged or Error
    err,            \* the exception range_test raised, "" when none
    args,           \* the arguments of the current range_test call
    lr_schedule,    \* the local lr_schedule of range_test
    iteration,      \* the loop variable of range_test
    pc,             \* the position inside the loop body
    loss,           \* the local loss of range_test
    raw_losses,     \* the values loss held after lines 205-207, per iteration
    val_loss,       \* what the last val_step.step() returned
    train_calls,    \* train_step.step() calls of this run
    val_calls,      \* val_step.step() calls of this run
    last_step,      \* what the last Step.step() call did
    runs,           \* range_test calls made so far
    plotted         \* what the last plot() call since the last range_test
                    \* drew and returned

vars ==
    << param_groups, history, best_loss, has_val, state, err, args,
       lr_schedule, iteration, pc, loss, raw_losses, val_loss,
       train_calls, val_calls, last_step, runs, plotted >>

(* ------------------------------- plot --------------------------------- *)

Min(a, b) == IF a < b THEN a ELSE b
Max(a, b) == IF a < b THEN b ELSE a

\* the position a slice bound i denotes in a list of length n: a negative
\* bound counts from the end, and every bound is clipped to the list
SliceBound(i, n) == IF i < 0 THEN Max(i + n, 0) ELSE Min(i, n)

\* Python's seq[start:]
SliceFrom(seq, start) ==
    LET lo == SliceBound(start, Len(seq))
    IN  [ k \in 1..(Len(seq) - lo) |-> seq[lo + k] ]

\* Python's seq[start:stop]
SliceBetween(seq, start, stop) ==
    LET lo == SliceBound(start, Len(seq))
        hi == SliceBound(stop, Len(seq))
    IN  [ k \in 1..Max(hi - lo, 0) |-> seq[lo + k] ]

\* the trimming without the case skip_end == 0
trimmed_to_minus_skip_end(series, skip_start, skip_end) ==
    SliceBetween(series, skip_start, -skip_end)

\* lines 291-296: the part of a series that is plotted
trimmed(series, skip_start, skip_end) ==
    IF skip_end = 0 THEN SliceFrom(series, skip_start)
    ELSE SliceBetween(series, skip_start, -skip_end)

\* np.gradient of a list of at least two values: central differences
\* inside, one-sided differences at both ends
gradient(f) ==
    LET n == Len(f)
    IN  [ k \in 1..n |->
            IF k = 1 THEN QSub(f[2], f[1])
            ELSE IF k = n THEN QSub(f[n], f[n - 1])
            ELSE QDiv(QSub(f[k + 1], f[k - 1]), QInt(2)) ]

\* ndarray.argmin(): the first position of the least value, counted from 0
argmin(g) ==
    (CHOOSE k \in 1..Len(g) :
        /\ \A j \in 1..Len(g) : QLe(g[k], g[j])
        /\ \A j \in 1..(k - 1) : QLt(g[k], g[j])) - 1

\* lines 312-317: min_grad_idx, as a list of no or one index; np.gradient
\* raises the ValueError caught there on fewer than two values
min_grad_idx(losses) ==
    IF Len(losses) < 2 THEN None ELSE << argmin(gradient(losses)) >>

\* the truth value of min_grad_idx at line 342: None and 0 are false
IdxTruthy(idx) == idx # None /\ idx[1] # 0

NoPlot ==
    [ called |-> FALSE, skip_start |-> 0, skip_end |-> 0,
      suggest_lr |-> FALSE, err |-> "", lrs |-> <<>>, losses |-> <<>>,
      marked |-> None, suggested |-> None ]

\* LRFinder.plot (lines 247-345) on history h: the series drawn, the index
\* marked as steepest and the rate returned beside the axes, or the error
\* raised.  show_lr is "None", "float" or another type.
plot(h, skip_start, skip_end, show_lr, suggest_lr) ==
    LET failed(e) ==
            [ called |-> TRUE, skip_start |-> skip_start,
              skip_end |-> skip_end, suggest_lr |-> suggest_lr, err |-> e,
              lrs |-> <<>>, losses |-> <<>>, marked |-> None,
              suggested |-> None ]
        lrs == trimmed(h.lr, skip_start, skip_end)
        losses == trimmed(h.loss, skip_start, skip_end)
        idx == IF suggest_lr THEN min_grad_idx(losses) ELSE None
    IN  IF skip_start < 0 THEN
            failed("ValueError: skip_start cannot be negative")
        ELSE IF skip_end < 0 THEN
            failed("ValueError: skip_end cannot be negative")
        ELSE IF show_lr \notin { "None", "float" } THEN
            failed("ValueError: show_lr must be float")
        ELSE
            [ called |-> TRUE, skip_start |-> skip_start,
              skip_end |-> skip_end, suggest_lr |-> suggest_lr, err |-> "",
              lrs |-> lrs, losses |-> losses, marked |-> idx,
              suggested |-> IF suggest_lr /\ IdxTruthy(idx)
                            THEN << lrs[idx[1] + 1] >> ELSE None ]

\* a call of plot between two range tests
Plot(skip_start, skip_end, show_lr, suggest_lr) ==
    /\ state # "Running"
    /\ plotted' = plot(history, skip_start, skip_end, show_lr, suggest_lr)
    /\ UNCHANGED << param_groups, history, best_loss, has_val, state, err,
                    args, lr_schedule, iteration, pc, loss, raw_losses,
                    val_loss, train_calls, val_calls, last_step, runs >>

(* ------------------------------ Step ---------------------------------- *)

\* step() resetting the iteration source before it tries _step() at all
step_reset_first(first, reset, retry, l) ==
    IF first = "ok" THEN
        [ first |-> first, retry |-> "none",
          calls |-> << "_reset", "_step" >>, raised |-> "", value |-> l ]
    ELSE
        [ first |-> first, retry |-> "none",
          calls |-> << "_reset", "_step" >>,
          raised |-> IF first = "StopIteration" THEN "StopIteration"
                     ELSE "StepError",
          value |-> None ]

\* Step.step(): first, reset and retry are what the user's _step(), _reset()
\* and second _step() do (return, raise StopIteration, raise another error);
\* l is the loss a returning _step() yields.  The result lists the methods
\* step() called, in order, and what it returned or raised.
step(first, reset, retry, l) ==
    IF first = "ok" THEN
        \* line 46 returns
        [ first |-> first, retry |-> "none", calls |-> << "_step" >>,
          raised |-> "", value |-> l ]
    ELSE IF first = "error" THEN
        \* line 46 raises what line 47 does not catch
        [ first |-> first, retry |-> "none", calls |-> << "_step" >>,
          raised |-> "StepError", value |-> None ]
    ELSE IF reset # "ok" THEN
        \* line 48 raises
        [ first |-> first, retry |-> "none",
          calls |-> << "_step", "_reset" >>,
          raised |-> "ResetError", value |-> None ]
    ELSE IF retry = "ok" THEN
        \* line 49 returns
        [ first |-> first, retry |-> retry,
          calls |-> << "_step", "_reset", "_step" >>,
          raised |-> "", value |-> l ]
    ELSE
        \* line 49 raises, outside the try
        [ first |-> first, retry |-> retry,
          calls |-> << "_step", "_reset", "_step" >>,
          raised |-> IF retry = "StopIteration" THEN "StopIteration"
                     ELSE "StepError",
          value |-> None ]

NoStep ==
    [ first |-> "none", retry |-> "none", calls |-> <<>>,
      raised |-> "", value |-> None ]

(* ---------------------------- schedules ------------------------------- *)

NoSchedule ==
    [ mode |-> "none", end_lr |-> NoneArg, num_iter |-> 0,
      base_lrs |-> <<>>, last_epoch |-> -1 ]

\* float arithmetic on a value that may be complex
FMul(a, b) == IF a = Complex \/ b = Complex THEN Complex ELSE QMul(a, b)

\* LinearLR.get_lr / ExponentialLR.get_lr for one group (PyTorch >= 1.1.0:
\* r = last_epoch / (num_iter - 1)); end is the scalar end_lr
group_lr(mode, base_lr, end, r) ==
    IF mode = "linear"
    THEN QAdd(base_lr, QMul(r, QSub(end, base_lr)))
    ELSE FMul(base_lr, QPow(QDiv(end, base_lr), r))

\* get_lr() deriving each rate from the rate the optimizer holds now
get_lr_from_live(s) ==
    [ err |-> "",
      lrs |-> [ i \in 1..Len(s.base_lrs) |->
                  group_lr(s.mode, param_groups[i].lr, s.end_lr.val[1],
                           Q(s.last_epoch, s.num_iter - 1)) ] ]

\* get_lr(): the list of rates, or the error the arithmetic raises (a list
\* end_lr cannot be subtracted from or divided by a float; a zero base rate
\* divides by zero in the exponential schedule)
get_lr(s) ==
    IF s.end_lr.kind # "scalar" THEN [ err |-> "TypeError", lrs |-> <<>> ]
    ELSE IF s.mode = "exp" /\ \E i \in 1..Len(s.base_lrs) : s.base_lrs[i][1] = 0
    THEN [ err |-> "ZeroDivisionError", lrs |-> <<>> ]
    ELSE [ err |-> "",
           lrs |-> [ i \in 1..Len(s.base_lrs) |->
                       group_lr(s.mode, s.base_lrs[i], s.end_lr.val[1],
                                Q(s.last_epoch, s.num_iter - 1)) ] ]

\* _LRScheduler.step(): count the epoch, then write get_lr() to the groups
schedule_step(s, pg) ==
    LET s1 == [ s EXCEPT !.last_epoch = s.last_epoch + 1 ]
        g == get_lr(s1)
    IN  IF g.err # "" THEN [ err |-> g.err, sched |-> s1, pg |-> pg ]
        ELSE [ err |-> "", sched |-> s1,
               pg |-> [ i \in 1..Len(pg) |-> [ pg[i] EXCEPT !.lr = g.lrs[i] ] ] ]

HasInitialLr(g) == "initial_lr" \in DOMAIN g

\* group.setdefault('initial_lr', group['lr'])
SetDefaultInitialLr(g) ==
    IF HasInitialLr(g) THEN g ELSE [ lr |-> g.lr, initial_lr |-> g.lr ]

\* LinearLR.__init__ / ExponentialLR.__init__: the num_iter check, then
\* _LRScheduler.__init__, which marks every group with initial_lr, captures
\* the base rates and takes the initial step
schedule_init(mode, pg, end_lr, num_iter) ==
    IF num_iter <= 1
    THEN [ err |-> "InvalidIterationCount", sched |-> NoSchedule, pg |-> pg ]
    ELSE LET pg1 == [ i \in 1..Len(pg) |-> SetDefaultInitialLr(pg[i]) ]
             s0 == [ mode |-> mode, end_lr |-> end_lr, num_iter |-> num_iter,
                     base_lrs |-> [ i \in 1..Len(pg1) |-> pg1[i].initial_lr ],
                     last_epoch |-> -1 ]
         IN  schedule_step(s0, pg1)

(* ----------------------------- LRFinder ------------------------------- *)

EmptyHistory == [ lr |-> <<>>, loss |-> <<>> ]

\* LRFinder._check_for_scheduler: TRUE when it raises
check_for_scheduler(pg) == \E i \in 1..Len(pg) : HasInitialLr(pg[i])

\* LRFinder._set_learning_rate
set_learning_rate(pg, new_lrs) ==
    LET lrs == IF new_lrs.kind # "list"
               THEN [ i \in 1..Len(pg) |-> new_lrs.val[1] ]
               ELSE new_lrs.val
    IN  IF Len(lrs) # Len(pg)
        THEN [ err |-> "MismatchedGroupCount", pg |-> pg ]
        ELSE [ err |-> "",
               pg |-> [ i \in 1..Len(pg) |-> [ pg[i] EXCEPT !.lr = lrs[i] ] ] ]

\* Python truth of start_lr: None, 0 and the empty list are false
Truthy(a) ==
    /\ a.kind # "none"
    /\ a.kind = "scalar" => a.val[1] # QZero
    /\ a.kind = "list" => Len(a.val) > 0

\* str.lower() on the step modes the model passes
Lower(m) == IF m = "Linear" THEN "linear" ELSE m

\* the check with smooth_f = 1 let through
smooth_f_invalid_open(f) == QLt(f, QZero) \/ QLt(QOne, f)

\* line 200: smooth_f < 0 or smooth_f >= 1
smooth_f_invalid(f) == QLt(f, QZero) \/ QLe(QOne, f)

\* range_test, lines 188-201: from the starting rate to the loop.  Yields
\* the error raised ("" when none), the parameter groups as they are left
\* and the schedule built.
range_test_prepare(pg, a) ==
    LET set == IF Truthy(a.start_lr) THEN set_learning_rate(pg, a.start_lr)
               ELSE [ err |-> "", pg |-> pg ]
    IN  IF set.err # ""
        THEN [ err |-> set.err, pg |-> set.pg, sched |-> NoSchedule ]
        ELSE IF Lower(a.step_mode) \notin { "exp", "linear" }
        THEN [ err |-> "UnknownStepMode", pg |-> set.pg, sched |-> NoSchedule ]
        ELSE
        LET built == schedule_init(Lower(a.step_mode), set.pg, a.end_lr,
                                   a.num_iter)
        IN  IF built.err # "" THEN built
            ELSE IF smooth_f_invalid(a.smooth_f)
            THEN [ built EXCEPT !.err = "InvalidSmoothingFactor" ]
            ELSE built

\* the starting rate is written before the scheduler check is made
range_test_setup_late_check(pg, a) ==
    LET r == range_test_prepare(pg, a)
    IN  IF check_for_scheduler(pg)
        THEN [ err |-> "SchedulerConflict",
               pg |-> IF Truthy(a.start_lr)
                      THEN set_learning_rate(pg, a.start_lr).pg ELSE pg,
               sched |-> NoSchedule ]
        ELSE r

\* range_test, lines 185-201: the scheduler check, then the rest
range_test_setup(pg, a) ==
    IF check_for_scheduler(pg)
    THEN [ err |-> "SchedulerConflict", pg |-> pg, sched |-> NoSchedule ]
    ELSE range_test_prepare(pg, a)

\* range_test up to the loop (lines 181-203)
RangeTestCall(a) ==
    LET r == range_test_setup(param_groups, a)
    IN  /\ state # "Running"
        /\ runs < MaxRuns
        /\ runs' = runs + 1
        /\ history' = EmptyHistory
        /\ best_loss' = None
        /\ args' = a
        /\ param_groups' = r.pg
        /\ lr_schedule' = r.sched
        /\ err' = r.err
        /\ state' = IF r.err = "" THEN "Running" ELSE "Error"
        /\ pc' = IF r.err = "" THEN "train" ELSE "none"
        /\ iteration' = 0
        /\ loss' = None
        /\ raw_losses' = <<>>
        /\ val_loss' = None
        /\ train_calls' = 0
        /\ val_calls' = 0
        /\ last_step' = NoStep
        /\ plotted' = NoPlot
        /\ UNCHANGED has_val

\* the validation step never taken
after_train_skip_val(hv) == "record"

\* line 206: if self.val_step is not None
after_train(hv) == IF hv THEN "val" ELSE "record"

\* line 205: loss = self.train_step.step()
TrainStep(first, reset, retry, l) ==
    LET r == step(first, reset, retry, l)
    IN  /\ state = "Running"
        /\ pc = "train"
        /\ train_calls' = train_calls + 1
        /\ last_step' = r
        /\ IF r.raised # ""
           THEN /\ state' = "Error"
                /\ err' = r.raised
                /\ pc' = "none"
                /\ UNCHANGED loss
           ELSE /\ loss' = r.value
                /\ pc' = after_train(has_val)
                /\ UNCHANGED << state, err >>
        /\ UNCHANGED << param_groups, history, best_loss, has_val, args,
                        lr_schedule, iteration, raw_losses, val_loss,
                        val_calls, runs, plotted >>

\* lines 206-207: loss = self.val_step.step()
ValStep(first, reset, retry, l) ==
    LET r == step(first, reset, retry, l)
    IN  /\ state = "Running"
        /\ pc = "val"
        /\ val_calls' = val_calls + 1
        /\ last_step' = r
        /\ IF r.raised # ""
           THEN /\ state' = "Error"
                /\ err' = r.raised
                /\ pc' = "none"
                /\ UNCHANGED << loss, val_loss >>
           ELSE /\ loss' = r.value
                /\ val_loss' = r.value
                /\ pc' = "record"
                /\ UNCHANGED << state, err >>
        /\ UNCHANGED << param_groups, history, best_loss, has_val, args,
                        lr_schedule, iteration, raw_losses, train_calls,
                        runs, plotted >>

\* the smoothing weights the wrong way round
smoothed_swapped(it, smooth_f, l, losses) ==
    IF it = 0 THEN l
    ELSE IF QLt(QZero, smooth_f)
    THEN QAdd(QMul(QSub(QOne, smooth_f), l),
              QMul(smooth_f, losses[Len(losses)]))
    ELSE l

\* lines 214-220: the loss recorded at this iteration
smoothed(it, smooth_f, l, losses) ==
    IF it = 0 THEN l
    ELSE IF QLt(QZero, smooth_f)
    THEN QAdd(QMul(smooth_f, l),
              QMul(QSub(QOne, smooth_f), losses[Len(losses)]))
    ELSE l

\* the best loss overwritten by every loss
new_best_last(it, best, l) == l

\* lines 214-220: the best loss after this iteration
new_best(it, best, l) ==
    IF it = 0 THEN l ELSE IF QLt(l, best) THEN l ELSE best

\* the divergence test with >= for >
diverged_at_least(l, diverge_th, best) == QLe(QMul(diverge_th, best), l)

\* line 224: if loss > diverge_th * self.best_loss
diverged(l, diverge_th, best) == QLt(QMul(diverge_th, best), l)

\* the loop one iteration long
loop_done_late(it, num_iter) == it >= num_iter

\* the loop one iteration short
loop_done_early(it, num_iter) == it + 2 >= num_iter

\* line 203: range(num_iter) has no value after it
loop_done(it, num_iter) == it + 1 >= num_iter

\* the rate read after the schedule was advanced
recorded_lr_after_step(s) ==
    get_lr([ s EXCEPT !.last_epoch = s.last_epoch + 1 ]).lrs[1]

\* line 210: lr_schedule.get_lr()[0], read before line 211 advances
recorded_lr(s) == get_lr(s).lrs[1]

\* lines 209-226: the rest of the loop body
Record ==
    LET adv == schedule_step(lr_schedule, param_groups)
        l == smoothed(iteration, args.smooth_f, loss, history.loss)
        b == new_best(iteration, best_loss, l)
    IN  /\ state = "Running"
        /\ pc = "record"
        /\ raw_losses' = Append(raw_losses, loss)
        /\ history' = [ lr |-> Append(history.lr, recorded_lr(lr_schedule)),
                        loss |-> Append(history.loss, l) ]
        /\ lr_schedule' = adv.sched
        /\ param_groups' = adv.pg
        /\ loss' = l
        /\ best_loss' = b
        /\ IF diverged(l, args.diverge_th, b)
           THEN /\ state' = "Diverged"
                /\ pc' = "none"
                /\ UNCHANGED iteration
           ELSE IF loop_done(iteration, args.num_iter)
           THEN /\ state' = "Completed"
                /\ pc' = "none"
                /\ UNCHANGED iteration
           ELSE /\ iteration' = iteration + 1
                /\ pc' = "train"
                /\ UNCHANGED state
        /\ UNCHANGED << has_val, err, args, val_loss, train_calls,
                        val_calls, last_step, runs, plotted >>

\* LRFinder.__init__ on an optimizer no scheduler is attached to
Init ==
    /\ param_groups = [ i \in 1..NumGroups |-> [ lr |-> LowLr ] ]
    /\ history = EmptyHistory
    /\ best_loss = None
    /\ has_val \in BOOLEAN
    /\ state = "Idle"
    /\ err = ""
    /\ args = NoArgs
    /\ lr_schedule = NoSchedule
    /\ iteration = 0
    /\ pc = "none"
    /\ loss = None
    /\ raw_losses = <<>>
    /\ val_loss = None
    /\ train_calls = 0
    /\ val_calls = 0
    /\ last_step = NoStep
    /\ runs = 0
    /\ plotted = NoPlot

\* one step of the program, with the calls' arguments drawn from A, the
\* executors' losses from L and what their _step() calls do from O
NextOver(A, L, O) ==
    \/ \E a \in A : RangeTestCall(a)
    \/ \E first \in O, reset \in { "ok", "error" }, retry \in O, l \in L :
          TrainStep(first, reset, retry, l)
    \/ \E first \in O, reset \in { "ok", "error" }, retry \in O, l \in L :
          ValStep(first, reset, retry, l)
    \/ Record

\* calls of every shape on an LRFinder used MaxRuns times, with executors
\* whose data never runs out
Next == NextOver(Args, CallLosses, { "ok" })

Spec == Init /\ [][Next]_vars

\* sweeps with valid arguments, losses of both signs and executors whose
\* data may run out or fail
SweepNext == NextOver(SweepArgs, Losses, Outcomes)

SweepSpec == Init /\ [][SweepNext]_vars

\* the arguments of the sweeps of ScheduleSpec: rising, falling and level
\* sweeps from one base rate or from one per group
ScheduleArgs ==
    [ start_lr : { NoneArg, Scalar(HighLr), List(LrList(NumGroups)) },
      end_lr : { Scalar(LowLr), Scalar(HighLr) },
      num_iter : 2..MaxIter, step_mode : { "exp", "Linear" },
      smooth_f : { QZero }, diverge_th : { QInt(5) } ]

\* whole sweeps of both schedules, with a loss that never diverges
ScheduleNext == NextOver(ScheduleArgs, { QInt(1) }, { "ok" })

ScheduleSpec == Init /\ [][ScheduleNext]_vars

\* largest skip_start and skip_end a plot call is given
MaxSkip == 2

\* the arguments of the sweeps that are plotted
PlotArgs ==
    [ start_lr : { NoneArg }, end_lr : { Scalar(HighLr) },
      num_iter : 2..MaxIter, step_mode : { "Linear" },
      smooth_f : { QZero }, diverge_th : { QInt(5) } ]

\* sweeps that complete or diverge, and plots of the history before,
\* between and after them
PlotNext ==
    \/ NextOver(PlotArgs, CallLosses, { "ok" })
    \/ \E skip_start \in -1..MaxSkip, skip_end \in -1..MaxSkip,
          show_lr \in { "None", "float", "int" }, suggest_lr \in BOOLEAN :
          Plot(skip_start, skip_end, show_lr, suggest_lr)

PlotSpec == Init /\ [][PlotNext]_vars

\* the arguments of the calls of ListSpec: start_lr and end_lr as lists of
\* no, too few, as many and more values than there are parameter groups
ListArgs ==
    [ start_lr : { NoneArg } \cup
                 { List(LrList(n)) : n \in { 0, NumGroups - 1, NumGroups,
                                             NumGroups + 1 } },
      end_lr : { Scalar(HighLr), List(LrList(NumGroups - 1)),
                 List(LrList(NumGroups)) },
      num_iter : { 2 }, step_mode : { "exp", "Linear" },
      smooth_f : { QZero }, diverge_th : { QInt(5) } ]

\* calls with per-group lists, and the sweeps of those that are accepted
ListNext == NextOver(ListArgs, { QInt(1) }, { "ok" })

ListSpec == Init /\ [][ListNext]_vars

\* a per-group list of rates whose first one is 0
ZeroLrList == [ i \in 1..NumGroups |-> IF i = 1 THEN QZero ELSE LowLr ]

\* the arguments of the sweeps of BaseSpec: sweeps from a negative, a zero
\* and a positive base rate
BaseArgs ==
    [ start_lr : { Scalar(QInt(-1)), List(ZeroLrList), Scalar(HighLr) },
      end_lr : { Scalar(HighLr) }, num_iter : 2..MaxIter,
      step_mode : { "exp", "Linear" }, smooth_f : { QZero },
      diverge_th : { QInt(5) } ]

\* sweeps from base rates of every sign, with losses that may diverge
BaseNext == NextOver(BaseArgs, CallLosses, { "ok" })

BaseSpec == Init /\ [][BaseNext]_vars

\* the executors returning a loss
TrainReturns == \E l \in Losses : TrainStep("ok", "ok", "ok", l)
ValReturns == \E l \in Losses : ValStep("ok", "ok", "ok", l)

\* the sweeps of SweepSpec with executors that always return
ReturningNext == NextOver(SweepArgs, Losses, { "ok" })

\* WF_vars(Record) with ENABLED <<Record>>_vars written out: the rest of
\* the loop body can run exactly when the call is at it
RecordFair ==
    []<>(~(state = "Running" /\ pc = "record")) \/ []<><<Record>>_vars

\* range_test is sequential code and the executors return: every statement
\* of the loop that is reached runs
ReturningSpec ==
    /\ Init /\ [][ReturningNext]_vars
    /\ WF_vars(TrainReturns) /\ WF_vars(ValReturns) /\ RecordFair

\* the arguments of the sweeps of SignSpec
SignArgs ==
    [ start_lr : { NoneArg }, end_lr : { Scalar(HighLr) },
      num_iter : 2..MaxIter, step_mode : { "Linear" },
      smooth_f : { QZero, Q(1, 4) }, diverge_th : { QInt(1), QInt(2) } ]

\* the losses the executors return under SignSpec
SignLosses == { QInt(-1), QZero, QInt(1), QInt(6) }

\* sweeps over negative, zero and positive losses, with executors that
\* always return
SignNext == NextOver(SignArgs, SignLosses, { "ok" })

SignSpec == Init /\ [][SignNext]_vars

(* ------------------------------ claims -------------------------------- *)

Count(seq, x) == Cardinality({ i \in DOMAIN seq : seq[i] = x })

\* the j-th recorded loss exceeds diverge_th times the least loss recorded
\* up to and including it
ExceedsAt(j) ==
    QLt(QMul(args.diverge_th, SeqMin(SubSeq(history.loss, 1, j))),
        history.loss[j])

\* C1: the run stops at exactly the first iteration i whose recorded loss
\* exceeds diverge_th * BestLoss: in state Diverged the history holds i + 1
\* records of which only the last one exceeds, and the executors were
\* stepped i + 1 times and no more; in every other state no recorded loss
\* exceeds.
C1_StopsAtFirstDivergence ==
    LET n == Len(history.loss)
    IN  /\ state # "Diverged" => \A j \in 1..n : ~ExceedsAt(j)
        /\ state = "Diverged" =>
              /\ n = iteration + 1
              /\ Len(history.lr) = n
              /\ ExceedsAt(n)
              /\ \A j \in 1..(n - 1) : ~ExceedsAt(j)
              /\ train_calls = n
              /\ val_calls = IF has_val THEN n ELSE 0
              /\ pc = "none"

\* a run that diverged at its second iteration with a third one planned
C1_Witness ==
    /\ state = "Diverged"
    /\ iteration = 1
    /\ args.num_iter = 3
    /\ Len(history.loss) = 2

\* C2: a run of num_iter = K that completes holds exactly K learning rates
\* and K losses.
C2_CompletedLength ==
    state = "Completed" =>
        /\ Len(history.lr) = args.num_iter
        /\ Len(history.loss) = args.num_iter

\* a completed run of three iterations
C2_Witness == state = "Completed" /\ args.num_iter = 3

\* C3: the first recorded loss is the raw loss of iteration 0; each later
\* one is smooth_f * raw_i + (1 - smooth_f) * recorded_(i-1), or raw_i when
\* smooth_f = 0; the raw loss is the validation loss when there is a
\* validation executor.
C3_SmoothedLoss ==
    /\ Len(raw_losses) = Len(history.loss)
    /\ \A i \in 1..Len(history.loss) :
          history.loss[i] =
              IF i = 1 \/ args.smooth_f = QZero THEN raw_losses[i]
              ELSE QAdd(QMul(args.smooth_f, raw_losses[i]),
                        QMul(QSub(QOne, args.smooth_f), history.loss[i - 1]))
    /\ (has_val /\ pc # "record" /\ Len(raw_losses) > 0) =>
          raw_losses[Len(raw_losses)] = val_loss

\* three smoothed validation losses, the last one unlike its raw loss
C3_Witness ==
    /\ has_val
    /\ args.smooth_f = Q(1, 4)
    /\ Len(history.loss) = 3
    /\ history.loss[3] # raw_losses[3]
    /\ history.loss[2] # raw_losses[2]

\* C4: within a run the best loss never increases, and once a record is
\* appended it is the least loss recorded so far in the run.
C4_BestLoss ==
    [][ /\ Len(history'.loss) > 0 => best_loss' = SeqMin(history'.loss)
        /\ Len(history'.loss) = 0 => best_loss' = None
        /\ (best_loss # None /\ best_loss' # None) => QLe(best_loss', best_loss)
      ]_vars

\* the best loss is the second of three records
C4_Witness ==
    /\ Len(history.loss) = 3
    /\ best_loss = history.loss[2]
    /\ QLt(best_loss, history.loss[1])
    /\ QLt(best_loss, history.loss[3])

\* a parameter group carries the marker of an attached scheduler
Marked(pg) == \E i \in 1..Len(pg) : "initial_lr" \in DOMAIN pg[i]

\* the step from the caller into range_test
IsCall == runs' = runs + 1

\* start_lr is a list that is used and whose length is not the number of
\* parameter groups
StartLrMismatch(a) ==
    /\ a.start_lr.kind = "list"
    /\ Len(a.start_lr.val) > 0
    /\ Len(a.start_lr.val) # NumGroups

ModeKnown(a) == a.step_mode \in { "exp", "linear", "Exp", "Linear", "EXP" }

SmoothOutOfRange(a) == QLt(a.smooth_f, QZero) \/ ~QLt(a.smooth_f, QOne)

\* the precondition errors of range_test
PreconditionErrors ==
    { "SchedulerConflict", "UnknownStepMode", "InvalidSmoothingFactor",
      "InvalidIterationCount", "MismatchedGroupCount" }

\* C5: a range_test call that fails with a precondition error leaves the
\* history and every parameter group as they were before the call.
C5_FailFastNoMutation ==
    [][ (IsCall /\ err' \in PreconditionErrors) =>
            /\ history' = history
            /\ param_groups' = param_groups ]_vars

\* C6: after a run has ended Completed or Diverged, a further range_test
\* call with valid arguments on the same LRFinder and optimizer passes the
\* scheduler check, empties the history and starts a new sweep.
C6_RunAgainAfterRun ==
    [][ (  /\ IsCall
           /\ state \in { "Completed", "Diverged" }
           /\ ~StartLrMismatch(args') /\ ModeKnown(args')
           /\ args'.num_iter > 1 /\ ~SmoothOutOfRange(args') ) =>
            /\ err' # "SchedulerConflict"
            /\ history' = EmptyHistory
            /\ state' = "Running" ]_vars

\* C7: a call on an optimizer of which a group carries initial_lr raises
\* SchedulerConflict with the parameter groups untouched, the history
\* empty and no step() made, and nothing is stepped or recorded afterwards.
C7_SchedulerConflict ==
    [][ /\ (IsCall /\ Marked(param_groups)) =>
              /\ state' = "Error"
              /\ err' = "SchedulerConflict"
              /\ param_groups' = param_groups
        /\ err' = "SchedulerConflict" =>
              /\ history' = EmptyHistory
              /\ train_calls' = 0
              /\ val_calls' = 0
              /\ pc' = "none" ]_vars

\* a call with start_lr = 64 refused on a marked optimizer whose rates are
\* not 64
C7_Witness ==
    /\ err = "SchedulerConflict"
    /\ args.start_lr = Scalar(HighLr)
    /\ Marked(param_groups)
    /\ \A i \in 1..NumGroups : param_groups[i].lr # HighLr

C9_TrainThenValidate ==
    has_val =>
        /\ val_calls <= train_calls
        /\ train_calls <= val_calls + 1
        /\ (state = "Running" /\ pc = "train") =>
              train_calls = iteration /\ val_calls = iteration
        /\ (state = "Running" /\ pc = "val") =>
              train_calls = iteration + 1 /\ val_calls = iteration
        /\ (state = "Running" /\ pc = "record") =>
              /\ train_calls = iteration + 1
              /\ val_calls = iteration + 1
              /\ loss = val_loss
        /\ state \in { "Completed", "Diverged" } =>
              /\ train_calls = Len(history.loss)
              /\ val_calls = Len(history.loss)
        /\ (pc # "record" /\ Len(raw_losses) > 0) =>
              raw_losses[Len(raw_losses)] = val_loss
        /\ Len(history.loss) = 1 => history.loss[1] = raw_losses[1]

\* the second iteration of a run with both executors, before its record
C9_Witness ==
    /\ has_val
    /\ state = "Running"
    /\ pc = "record"
    /\ iteration = 1
    /\ val_loss # raw_losses[1]

\* C10: one step() call runs _reset() at most once and _step() at most
\* twice; _reset() and the retry happen exactly when the first _step()
\* raises StopIteration; what the retry raises reaches the caller of
\* range_test with no further call.
C10_ResetAndRetryOnce ==
    LET c == last_step.calls
    IN  /\ Count(c, "_reset") <= 1
        /\ Count(c, "_step") <= 2
        /\ last_step.first \in { "ok", "error" } => c = << "_step" >>
        /\ last_step.first = "ok" => last_step.raised = ""
        /\ last_step.first = "StopIteration" =>
              /\ Len(c) >= 2
              /\ c[1] = "_step"
              /\ c[2] = "_reset"
              /\ last_step.raised # "ResetError" =>
                    c = << "_step", "_reset", "_step" >>
        /\ last_step.retry = "ok" => last_step.raised = ""
        /\ last_step.retry = "StopIteration" =>
              last_step.raised = "StopIteration"
        /\ last_step.retry = "error" => last_step.raised = "StepError"
        /\ last_step.raised # "" =>
              /\ state = "Error"
              /\ err = last_step.raised
              /\ pc = "none"

\* a retry that ran out of data again, inside the second iteration
C10_Witness ==
    /\ last_step.first = "StopIteration"
    /\ last_step.retry = "StopIteration"
    /\ state = "Error"
    /\ err = "StopIteration"
    /\ Len(history.loss) = 1

RECURSIVE QPowInt(_, _)
QPowInt(q, n) == IF n = 0 THEN QOne ELSE QMul(q, QPowInt(q, n - 1))

\* the rate group g had when the schedule of this call was built: the
\* start_lr given, or else the rate the optimizer was created with
BaseRate(g) ==
    IF args.start_lr.kind = "list" THEN args.start_lr.val[g]
    ELSE IF args.start_lr.kind = "scalar" THEN args.start_lr.val[1]
    ELSE LowLr

\* v is the rate of iteration i of the sweep of this call from base b
IsScheduled(v, b, i) ==
    LET e == args.end_lr.val[1]
        n == args.num_iter
    IN  /\ args.step_mode = "Linear" =>
              v = QAdd(b, QMul(Q(i, n - 1), QSub(e, b)))
        /\ args.step_mode = "exp" =>
              /\ QLt(QZero, v)
              /\ QPowInt(QDiv(v, b), n - 1) = QPowInt(QDiv(e, b), i)
        /\ i = 0 => v = b
        /\ i = n - 1 => v = e
        /\ (0 < i /\ i < n - 1 /\ QLt(b, e)) => QLt(b, v) /\ QLt(v, e)

\* C11: the rate recorded at iteration i, and the rate every group holds
\* during iteration i, is lr0 + (i / (N - 1)) * (end_lr - lr0) in linear
\* mode and lr0 * (end_lr / lr0) ** (i / (N - 1)) in exponential mode, lr0
\* being the rate the group had when the schedule was built; it is lr0 at
\* iteration 0, end_lr at iteration N - 1 and strictly between in between
\* when end_lr > lr0.
C11_ScheduleValues ==
    /\ \A j \in 1..Len(history.lr) :
          IsScheduled(history.lr[j], BaseRate(1), j - 1)
    /\ (state = "Running" /\ pc \in { "train", "val", "record" }) =>
          \A g \in 1..NumGroups :
              IsScheduled(param_groups[g].lr, BaseRate(g), iteration)

\* an exponential sweep of three iterations from 1 to 64, recorded whole
C11_Witness ==
    /\ state = "Completed"
    /\ args.step_mode = "exp"
    /\ args.num_iter = 3
    /\ history.lr = << QInt(1), QInt(8), QInt(64) >>

\* the part of series that lies after its first skip_start and before its
\* last skip_end values
Kept(series, skip_start, skip_end) ==
    SubSeq(series, skip_start + 1, Len(series) - skip_end)

\* the finite-difference slope of the list f at position k: central inside,
\* one-sided at both ends
Slope(f, k) ==
    IF k = 1 THEN QSub(f[2], f[1])
    ELSE IF k = Len(f) THEN QSub(f[k], f[k - 1])
    ELSE QDiv(QSub(f[k + 1], f[k - 1]), QInt(2))

\* the positions of f where the slope is least
Steepest(f) ==
    { k \in 1..Len(f) : \A j \in 1..Len(f) : QLe(Slope(f, k), Slope(f, j)) }

\* C12: a plot with suggest_lr returns, when at least two points are left
\* after trimming, the rate at the index where the slope of the loss is
\* least, wherever that index lies, and returns no suggestion and raises
\* nothing when fewer than two points are left.
C12_SuggestsSteepest ==
    (plotted.called /\ plotted.suggest_lr /\ plotted.skip_start >= 0
        /\ plotted.skip_end >= 0 /\ plotted.err = "") =>
        LET lrs == Kept(history.lr, plotted.skip_start, plotted.skip_end)
            losses == Kept(history.loss, plotted.skip_start, plotted.skip_end)
        IN  IF Len(losses) >= 2
            THEN \E k \in Steepest(losses) : plotted.suggested = << lrs[k] >>
            ELSE plotted.suggested = None

C14_StartLrApplied ==
    (state = "Running" /\ args.start_lr.kind = "scalar") =>
        /\ \A g \in 1..NumGroups :
              lr_schedule.base_lrs[g] = args.start_lr.val[1]
        /\ Len(history.lr) >= 1 => history.lr[1] = args.start_lr.val[1]

\* C15: on an optimizer no scheduler was attached to, a start_lr list or an
\* end_lr list whose length is not the number of parameter groups makes
\* range_test fail before any iteration, and lists of that length are
\* accepted, the start_lr list being written one value per group.
C15_ListArguments ==
    [][(IsCall /\ ~Marked(param_groups)) =>
          LET start == args'.start_lr
              end == args'.end_lr
              fits(l) == l.kind = "list" => Len(l.val) = NumGroups
          IN  /\ ~(fits(start) /\ fits(end)) =>
                    /\ state' = "Error"
                    /\ train_calls' = 0
                    /\ history' = EmptyHistory
              /\ (fits(start) /\ fits(end)) =>
                    /\ state' = "Running"
                    /\ start.kind = "list" =>
                          \A g \in 1..NumGroups :
                              param_groups'[g].lr = start.val[g]]_vars

\* C16: an exponential sweep from a base rate lr0 <= 0 fails with an error
\* instead of running, and no rate that is not a real number is ever
\* written to a parameter group or to the history.
C16_NonPositiveBaseRejected ==
    /\ (state \in { "Running", "Completed", "Diverged" }
            /\ Lower(args.step_mode) = "exp") =>
          \A g \in 1..NumGroups : QLt(QZero, lr_schedule.base_lrs[g])
    /\ \A g \in 1..NumGroups : param_groups[g].lr # Complex
    /\ \A j \in 1..Len(history.lr) : history.lr[j] # Complex

\* C17: with executors that always return, a range_test that was accepted
\* ends as Completed or Diverged after at most num_iter training steps, as
\* Completed only after exactly num_iter iterations, and once it has
\* ended no step is called, the schedule is not advanced and nothing is
\* appended to the history until the next call.
C17_Terminates ==
    /\ [](/\ state \in { "Running", "Completed", "Diverged" } =>
                train_calls <= args.num_iter
          /\ state = "Completed" =>
                /\ train_calls = args.num_iter
                /\ Len(history.lr) = args.num_iter
                /\ Len(history.loss) = args.num_iter)
    /\ (state = "Running") ~> (state \in { "Completed", "Diverged" })
    /\ [][(state \in { "Completed", "Diverged" } /\ ~IsCall) =>
            UNCHANGED << history, lr_schedule, param_groups, train_calls,
                         val_calls >>]_vars

\* a sweep that ended as Completed after three training steps
C17_Witness ==
    /\ state = "Completed"
    /\ args.num_iter = 3
    /\ train_calls = 3

\* C18: the rate appended to the history for an iteration is the rate the
\* first parameter group held while the training step of that iteration
\* ran: the executors leave the rates alone, and what is recorded is the
\* rate in the group before the schedule is advanced.
C18_RecordedIsHeld ==
    [][/\ (state = "Running" /\ pc \in { "train", "val" }) =>
              param_groups' = param_groups
       /\ Len(history'.lr) = Len(history.lr) + 1 =>
              history'.lr[Len(history'.lr)] = param_groups[1].lr]_vars

\* the third iteration begins after two rates were recorded, the second
\* one the rate the first advance had written
C18_Witness ==
    /\ state = "Running"
    /\ pc = "train"
    /\ iteration = 2
    /\ Len(history.lr) = 2
    /\ history.lr[2] # history.lr[1]

\* C19: in a sweep whose base rates are at most end_lr, no parameter group
\* ever holds a rate above end_lr, the advance after the last iteration
\* included, and a Completed sweep leaves every group at end_lr.
C19_NeverAboveEndLr ==
    (/\ state \in { "Running", "Completed", "Diverged" }
     /\ \A g \in 1..NumGroups :
            QLe(lr_schedule.base_lrs[g], args.end_lr.val[1])) =>
        /\ \A g \in 1..NumGroups :
              QLe(param_groups[g].lr, args.end_lr.val[1])
        /\ state = "Completed" =>
              \A g \in 1..NumGroups :
                  param_groups[g].lr = args.end_lr.val[1]

\* no recorded loss is above the one recorded before it
NonIncreasing(losses) ==
    \A j \in 2..Len(losses) : QLe(losses[j], losses[j - 1])

\* C20 (as stated): for diverge_th >= 1 a sweep whose recorded losses, of
\* any sign, never rise is never Diverged: it records all num_iter
\* iterations.
C20_NeverDivergesWithoutRise ==
    (QLe(QOne, args.diverge_th) /\ NonIncreasing(history.loss)) =>
        /\ state # "Diverged"
        /\ state = "Completed" => Len(history.loss) = args.num_iter

\* C20 (amended): for diverge_th >= 1 a sweep whose recorded losses are
\* non-negative and never rise is never Diverged: it does not stop at
\* iteration 0 and records all num_iter iterations.
C20_NonNegativeNeverDiverges ==
    (/\ QLe(QOne, args.diverge_th)
     /\ NonIncreasing(history.loss)
     /\ \A j \in 1..Len(history.loss) : QLe(QZero, history.loss[j])) =>
        /\ state # "Diverged"
        /\ state \in { "Completed", "Diverged" } =>
              Len(history.loss) = args.num_iter

\* a sweep of three falling losses down to 0, recorded whole
C20_Witness ==
    /\ state = "Completed"
    /\ history.loss = << QInt(6), QInt(1), QZero >>

====
